---- MODULE Spec2Model ----
(***************************************************************************)
(* A model of src/log20.go (the gocyclo-derived program of lines 190-426): *)
(* main, analyze, analyzeDir, analyzeFile, buildBasicBlocks, funcName,     *)
(* recvString, complexity with its visitor, the byComplexity sort,         *)
(* writeBasicBlocks and average.                                           *)
(*                                                                         *)
(* Strings that the program builds by formatting are sequences of tokens,  *)
(* so that "*" + recvString(x) is a real concatenation.  A syntax subtree  *)
(* is the preorder list of its nodes, each with the index of its parent    *)
(* (0 is the FuncDecl root).                                               *)
(***************************************************************************)
EXTENDS Integers, Sequences, FiniteSets, TLC

VARIABLES
    over, top, avg,  \* the flags -over, -top, -avg
    args,            \* number of command-line paths not yet analysed
    pc,              \* position of main
    cpc,             \* per caller: position inside analyzeFile/buildBasicBlocks
    walk,            \* per caller: files still to be handed to analyzeFile
    file,            \* per caller: the *ast.File being analysed
    idx,             \* per caller: index of the range loop over f.Decls
    BasicBlocks,     \* per caller: its BasicBlocks slice
    count,           \* the package-level counter
    counterMutex,    \* 0 when unlocked, else the caller holding it
    written,         \* main's local: result of writeBasicBlocks
    stdout, stderr,  \* lines written to the two streams
    exitCode,        \* -1 while the process runs, else its exit status
    discovered       \* history: main's BasicBlocks as handed to sort.Sort

vars == <<over, top, avg, args, pc, cpc, walk, file, idx, BasicBlocks, count,
          counterMutex, written, stdout, stderr, exitCode, discovered>>

----------------------------------------------------------------------------
(* Bounds *)

MaxFiles == 2
NumCallers == 2
MaxLen == 4
MaxComplexity == 3
MaxOver == 3
MaxTop == 2
MaxNodes == 2
MaxStars == 2

Callers == 1..NumCallers
Main == 1
OverValues == (-1)..MaxOver
TopValues == (-1)..MaxTop

SeqsUpTo(S, n) == UNION {[1..k -> S] : k \in 0..n}

----------------------------------------------------------------------------
(* Syntax trees *)

Ident(name) == [t |-> "Ident", Name |-> name]
StarExpr(x) == [t |-> "StarExpr", X |-> x]
ArrayType == [t |-> "ArrayType"]

NoRecv == [nil |-> TRUE, List |-> <<>>]
RecvOf(typ) == [nil |-> FALSE, List |-> <<[Type |-> typ]>>]
EmptyRecv == [nil |-> FALSE, List |-> <<>>]

Node(kind, parent) == [kind |-> kind, Op |-> "none", Fun |-> "none", parent |-> parent]
BinaryExpr(op, parent) == [kind |-> "BinaryExpr", Op |-> op, Fun |-> "none", parent |-> parent]
CallExpr(fun, parent) == [kind |-> "CallExpr", Op |-> "none", Fun |-> fun, parent |-> parent]

GenDecl == [type |-> "GenDecl"]
FuncDecl(name, recv, nodes) ==
    [type |-> "FuncDecl", Name |-> name, Recv |-> recv, Nodes |-> nodes]

RootNode == Node("FuncDecl", -1)

(* A node list is a preorder listing when every node's parent is the node  *)
(* before it or one of that node's ancestors.                              *)
RECURSIVE Ancestors(_, _)
Ancestors(nodes, i) ==
    IF i = 0 THEN {0} ELSE {i} \cup Ancestors(nodes, nodes[i].parent)

IsPreorder(nodes) ==
    \A i \in DOMAIN nodes :
        nodes[i].parent \in (IF i = 1 THEN {0} ELSE Ancestors(nodes, i - 1))

----------------------------------------------------------------------------
(* funcName and recvString *)

RECURSIVE recvString(_)
recvString(recv) ==
    IF recv.t = "Ident" THEN <<recv.Name>>
    ELSE IF recv.t = "StarExpr" THEN <<"*">> \o recvString(recv.X)
    ELSE <<"BADRECV">>

NumFields(fieldList) == Len(fieldList.List)

funcName(fn) ==
    IF ~fn.Recv.nil /\ NumFields(fn.Recv) > 0
    THEN <<"(">> \o recvString(fn.Recv.List[1].Type) \o <<")", ".", fn.Name>>
    ELSE <<fn.Name>>

----------------------------------------------------------------------------
(* complexity and its visitor *)

CountedKinds ==
    {"FuncDecl", "IfStmt", "ForStmt", "RangeStmt", "CaseClause", "CommClause"}

\* Visit as it would be with the || case forgotten.
VisitDropsLOR(v, n) ==
    [Complexity |-> IF n.kind \in CountedKinds
                       \/ (n.kind = "BinaryExpr" /\ n.Op = "LAND")
                    THEN v.Complexity + 1 ELSE v.Complexity,
     out |-> IF n.kind = "CallExpr" THEN <<[kind |-> "Fun", Fun |-> n.Fun]>> ELSE <<>>,
     ret |-> "v"]

(* One call of Visit: the visitor's new Complexity, what it printed on     *)
(* standard output, and the visitor it returns (always v, never nil).      *)
Visit(v, n) ==
    [Complexity |-> IF n.kind \in CountedKinds
                       \/ (n.kind = "BinaryExpr" /\ n.Op \in {"LAND", "LOR"})
                    THEN v.Complexity + 1 ELSE v.Complexity,
     out |-> IF n.kind = "CallExpr" THEN <<[kind |-> "Fun", Fun |-> n.Fun]>> ELSE <<>>,
     ret |-> "v"]

(* ast.Walk over the nodes below the root: a node is visited unless an     *)
(* ancestor's Visit returned nil.  The closing Visit(nil) calls match no   *)
(* case of the type switch and are left out.                               *)
RECURSIVE WalkNodes(_, _, _)
WalkNodes(nodes, i, acc) ==
    IF i > Len(nodes) THEN acc
    ELSE IF nodes[i].parent \in acc.pruned
    THEN WalkNodes(nodes, i + 1, [acc EXCEPT !.pruned = @ \cup {i}])
    ELSE LET r == Visit([Complexity |-> acc.Complexity], nodes[i])
         IN  WalkNodes(nodes, i + 1,
                 [Complexity |-> r.Complexity,
                  out |-> acc.out \o r.out,
                  pruned |-> IF r.ret = "nil" THEN acc.pruned \cup {i}
                             ELSE acc.pruned])

Walk(fn) ==
    LET r == Visit([Complexity |-> 0], RootNode)
    IN  WalkNodes(fn.Nodes, 1,
            [Complexity |-> r.Complexity, out |-> r.out,
             pruned |-> IF r.ret = "nil" THEN {0} ELSE {}])

complexity(fn) == Walk(fn).Complexity
complexityOutput(fn) == Walk(fn).out

----------------------------------------------------------------------------
(* Records *)

Position(f, i, at) == [Filename |-> f.fname, Decl |-> i, At |-> at]

NewBasicBlock(f, i, id) ==
    [PkgName |-> f.Name,
     FuncName |-> funcName(f.Decls[i]),
     Complexity |-> complexity(f.Decls[i]),
     Pos |-> Position(f, i, "Pos"),
     EndPos |-> Position(f, i, "End"),
     ID |-> id]

String(s) == <<s.Complexity, s.PkgName, s.FuncName, s.Pos, s.EndPos, s.ID>>

Println(s) == [kind |-> "BasicBlock", text |-> String(s)]

----------------------------------------------------------------------------
(* byComplexity and sort.Sort.  For fewer than seven elements sort.Sort is *)
(* insertionSort in every Go release (quickSort's gap-6 pass needs seven,  *)
(* pdqsort switches to insertion sort up to twelve).                       *)

\* Less with the comparison turned round.
LessAscending(s, i, j) == s[i].Complexity <= s[j].Complexity

Less(s, i, j) == s[i].Complexity >= s[j].Complexity

Swap(s, i, j) == [s EXCEPT ![i] = s[j], ![j] = s[i]]

RECURSIVE insertionInner(_, _)
insertionInner(s, j) ==
    IF j > 1 /\ Less(s, j, j - 1)
    THEN insertionInner(Swap(s, j, j - 1), j - 1)
    ELSE s

RECURSIVE insertionSort(_, _)
insertionSort(s, i) ==
    IF i > Len(s) THEN s ELSE insertionSort(insertionInner(s, i), i + 1)

sortSort(s) == insertionSort(s, 2)

----------------------------------------------------------------------------
(* writeBasicBlocks *)

\* The threshold test with < in place of <=.
AtOrBelowOverStrict(b) == b.Complexity < over

AtOrBelowOver(b) == b.Complexity <= over

(* The range loop from 0-based index i, with w the lines written so far.   *)
RECURSIVE writeLoop(_, _, _)
writeLoop(sorted, i, w) ==
    IF i >= Len(sorted) THEN [w |-> w, ret |-> Len(sorted)]
    ELSE IF i = top THEN [w |-> w, ret |-> i]
    ELSE IF AtOrBelowOver(sorted[i + 1]) THEN [w |-> w, ret |-> i]
    ELSE writeLoop(sorted, i + 1, Append(w, Println(sorted[i + 1])))

writeBasicBlocks(sorted) == writeLoop(sorted, 0, <<>>)

----------------------------------------------------------------------------
(* average: float64(total) / float64(len), IEEE division *)

RECURSIVE Total(_, _)
Total(s, i) == IF i > Len(s) THEN 0 ELSE s[i].Complexity + Total(s, i + 1)

FloatDiv(a, b) ==
    IF b # 0 THEN [class |-> "finite", num |-> a, den |-> b]
    ELSE IF a = 0 THEN [class |-> "NaN", num |-> 0, den |-> 0]
    ELSE [class |-> "Inf", num |-> a, den |-> 0]

average(blocks) == FloatDiv(Total(blocks, 1), Len(blocks))

AverageLine(blocks) == [kind |-> "Average", value |-> average(blocks)]


----------------------------------------------------------------------------
(* The files and directories a run may be pointed at *)

GoFile(fname, ok, decls) == [fname |-> fname, ok |-> ok, Name |-> "p", Decls |-> decls]
NoFile == GoFile("", TRUE, <<>>)

\* func Five() { if a && b { for { switch { case x: } } } }
Five == FuncDecl("Five", NoRecv,
            <<Node("IfStmt", 0), BinaryExpr("LAND", 1), Node("ForStmt", 1),
              Node("CaseClause", 3)>>)
\* func Two() { if a { } }
Two == FuncDecl("Two", NoRecv, <<Node("IfStmt", 0)>>)
\* func (r *T) Calls() { g() }
Calls == FuncDecl("Calls", RecvOf(StarExpr(Ident("T"))), <<CallExpr("g", 0)>>)
\* func Plain() { }
Plain == FuncDecl("Plain", NoRecv, <<>>)

FileA == GoFile("a.go", TRUE, <<Five, Two>>)
FileB == GoFile("b.go", TRUE, <<GenDecl, Calls, Plain>>)
FileC == GoFile("c.go", TRUE, <<GenDecl>>)
FileBad == GoFile("bad.go", FALSE, <<>>)

FileSet == {FileA, FileB, FileC, FileBad}

\* What filepath.Walk hands to the callback for one directory entry.
Entry(err, isDir, goSuffix, f) ==
    [err |-> err, IsDir |-> isDir, HasSuffixGo |-> goSuffix, file |-> f]

PathFile(f) == [IsDir |-> FALSE, file |-> f, entries |-> <<>>]
PathDir(entries) == [IsDir |-> TRUE, file |-> NoFile, entries |-> entries]

DirD == PathDir(<<Entry(FALSE, TRUE, FALSE, NoFile),
                  Entry(FALSE, FALSE, FALSE, FileBad),
                  Entry(FALSE, FALSE, TRUE, FileB),
                  Entry(TRUE, FALSE, TRUE, FileA),
                  Entry(FALSE, FALSE, TRUE, FileBad)>>)

PathSet == {PathFile(f) : f \in FileSet} \cup {DirD}

isDir(p) == p.IsDir

(* analyzeDir: the files the Walk callback hands to analyzeFile, in order. *)
(* The callback returns err, so the walk ends at the first entry that      *)
(* comes with an error.                                                    *)
RECURSIVE analyzeDirFiles(_, _)
analyzeDirFiles(entries, i) ==
    IF i > Len(entries) THEN <<>>
    ELSE IF entries[i].err THEN <<>>
    ELSE IF ~entries[i].IsDir /\ entries[i].HasSuffixGo
    THEN <<entries[i].file>> \o analyzeDirFiles(entries, i + 1)
    ELSE analyzeDirFiles(entries, i + 1)

----------------------------------------------------------------------------
(* Actions *)

Running == exitCode = -1

UsageExit == 2
LogFatalExit == 1

(* main, lines 255-259: no arguments is a usage error. *)
Start ==
    /\ Running /\ pc = "start"
    /\ IF args = 0
       THEN /\ stderr' = Append(stderr, [kind |-> "usage"])
            /\ exitCode' = UsageExit
            /\ pc' = "done"
       ELSE /\ pc' = "analyze"
            /\ UNCHANGED <<stderr, exitCode>>
    /\ UNCHANGED <<over, top, avg, args, cpc, walk, file, idx, BasicBlocks,
                   count, counterMutex, written, stdout, discovered>>

(* analyze: the next path, a directory or a file. *)
NextPath ==
    /\ Running /\ pc = "analyze" /\ cpc[Main] = "idle" /\ walk[Main] = <<>>
    /\ args > 0
    /\ \E p \in PathSet :
          walk' = [walk EXCEPT ![Main] =
                      IF isDir(p) THEN analyzeDirFiles(p.entries, 1)
                      ELSE <<p.file>>]
    /\ args' = args - 1
    /\ UNCHANGED <<over, top, avg, pc, cpc, file, idx, BasicBlocks, count,
                   counterMutex, written, stdout, stderr, exitCode, discovered>>

(* analyzeFile: parse, log.Fatal on error, else enter buildBasicBlocks. *)
ParseFile(c) ==
    /\ Running /\ pc = "analyze" /\ cpc[c] = "idle" /\ walk[c] # <<>>
    /\ LET f == Head(walk[c])
       IN  IF ~f.ok
           THEN /\ stderr' = Append(stderr, [kind |-> "fatal", Filename |-> f.fname])
                /\ exitCode' = LogFatalExit
                /\ UNCHANGED <<cpc, walk, file, idx>>
           ELSE /\ file' = [file EXCEPT ![c] = f]
                /\ idx' = [idx EXCEPT ![c] = 1]
                /\ cpc' = [cpc EXCEPT ![c] = "range"]
                /\ walk' = [walk EXCEPT ![c] = Tail(@)]
                /\ UNCHANGED <<stderr, exitCode>>
    /\ UNCHANGED <<over, top, avg, args, pc, BasicBlocks, count, counterMutex,
                   written, stdout, discovered>>

AtFuncDecl(c) ==
    /\ idx[c] <= Len(file[c].Decls)
    /\ file[c].Decls[idx[c]].type = "FuncDecl"

(* buildBasicBlocks: the range loop passes a non-function declaration, or  *)
(* returns at the end of f.Decls.                                          *)
RangeDecl(c) ==
    /\ Running /\ cpc[c] = "range" /\ ~AtFuncDecl(c)
    /\ IF idx[c] > Len(file[c].Decls)
       THEN /\ cpc' = [cpc EXCEPT ![c] = "idle"]
            /\ UNCHANGED idx
       ELSE /\ idx' = [idx EXCEPT ![c] = @ + 1]
            /\ UNCHANGED cpc
    /\ UNCHANGED <<over, top, avg, args, pc, walk, file, BasicBlocks, count,
                   counterMutex, written, stdout, stderr, exitCode, discovered>>

\* Lock as it would be without mutual exclusion.
CanLockAlways == TRUE

CanLock == counterMutex = 0

Lock(c) ==
    /\ Running /\ cpc[c] = "range" /\ AtFuncDecl(c)
    /\ CanLock
    /\ counterMutex' = c
    /\ cpc' = [cpc EXCEPT ![c] = "locked"]
    /\ UNCHANGED <<over, top, avg, args, pc, walk, file, idx, BasicBlocks,
                   count, written, stdout, stderr, exitCode, discovered>>

(* The append of lines 361-368: funcName, complexity (whose visitor prints *)
(* every call expression's Fun) and the read of count.                     *)
AppendBlock(c) ==
    /\ Running /\ cpc[c] = "locked"
    /\ BasicBlocks' = [BasicBlocks EXCEPT ![c] =
                          Append(@, NewBasicBlock(file[c], idx[c], count))]
    /\ stdout' = stdout \o complexityOutput(file[c].Decls[idx[c]])
    /\ cpc' = [cpc EXCEPT ![c] = "appended"]
    /\ UNCHANGED <<over, top, avg, args, pc, walk, file, idx, count,
                   counterMutex, written, stderr, exitCode, discovered>>

Incr(c) ==
    /\ Running /\ cpc[c] = "appended"
    /\ count' = count + 1
    /\ cpc' = [cpc EXCEPT ![c] = "incremented"]
    /\ UNCHANGED <<over, top, avg, args, pc, walk, file, idx, BasicBlocks,
                   counterMutex, written, stdout, stderr, exitCode, discovered>>

Unlock(c) ==
    /\ Running /\ cpc[c] = "incremented"
    /\ counterMutex' = 0
    /\ idx' = [idx EXCEPT ![c] = @ + 1]
    /\ cpc' = [cpc EXCEPT ![c] = "range"]
    /\ UNCHANGED <<over, top, avg, args, pc, walk, file, BasicBlocks, count,
                   written, stdout, stderr, exitCode, discovered>>

(* analyze returns to main. *)
AnalyzeDone ==
    /\ Running /\ pc = "analyze" /\ cpc[Main] = "idle" /\ walk[Main] = <<>>
    /\ args = 0
    /\ pc' = "sort"
    /\ UNCHANGED <<over, top, avg, args, cpc, walk, file, idx, BasicBlocks,
                   count, counterMutex, written, stdout, stderr, exitCode,
                   discovered>>

Sort ==
    /\ Running /\ pc = "sort"
    /\ discovered' = BasicBlocks[Main]
    /\ BasicBlocks' = [BasicBlocks EXCEPT ![Main] = sortSort(@)]
    /\ pc' = "write"
    /\ UNCHANGED <<over, top, avg, args, cpc, walk, file, idx, count,
                   counterMutex, written, stdout, stderr, exitCode>>

Write ==
    /\ Running /\ pc = "write"
    /\ LET r == writeBasicBlocks(BasicBlocks[Main])
       IN  /\ stdout' = stdout \o r.w
           /\ written' = r.ret
    /\ pc' = "avg"
    /\ UNCHANGED <<over, top, avg, args, cpc, walk, file, idx, BasicBlocks,
                   count, counterMutex, stderr, exitCode, discovered>>

ShowAverage ==
    /\ Running /\ pc = "avg"
    /\ stdout' = IF avg THEN Append(stdout, AverageLine(BasicBlocks[Main]))
                 ELSE stdout
    /\ pc' = "exit"
    /\ UNCHANGED <<over, top, avg, args, cpc, walk, file, idx, BasicBlocks,
                   count, counterMutex, written, stderr, exitCode, discovered>>

\* The exit test without its *over > 0 conjunct.
ExitStatusIgnoresOver == IF written > 0 THEN 1 ELSE 0

(* Lines 270-273: os.Exit(1), or main returns and the status is 0. *)
ExitStatus == IF over > 0 /\ written > 0 THEN 1 ELSE 0

Exit ==
    /\ Running /\ pc = "exit"
    /\ exitCode' = ExitStatus
    /\ pc' = "done"
    /\ UNCHANGED <<over, top, avg, args, cpc, walk, file, idx, BasicBlocks,
                   count, counterMutex, written, stdout, stderr, discovered>>

----------------------------------------------------------------------------
(* Specifications *)

InitCommon ==
    /\ cpc = [c \in Callers |-> "idle"]
    /\ file = [c \in Callers |-> NoFile]
    /\ idx = [c \in Callers |-> 0]
    /\ count = 1
    /\ counterMutex = 0
    /\ written = 0
    /\ stdout = <<>>
    /\ stderr = <<>>
    /\ exitCode = -1
    /\ discovered = <<>>

NoBlocks == [c \in Callers |-> <<>>]
NoWalk == [c \in Callers |-> <<>>]

(* A whole run of main. *)
Init ==
    /\ InitCommon
    /\ over \in OverValues /\ top \in TopValues /\ avg \in BOOLEAN
    /\ args \in 0..MaxFiles
    /\ pc = "start"
    /\ walk = NoWalk
    /\ BasicBlocks = NoBlocks

Next ==
    \/ Start
    \/ NextPath
    \/ ParseFile(Main)
    \/ RangeDecl(Main)
    \/ Lock(Main)
    \/ AppendBlock(Main)
    \/ Incr(Main)
    \/ Unlock(Main)
    \/ AnalyzeDone
    \/ Sort
    \/ Write
    \/ ShowAverage
    \/ Exit

Spec == Init /\ [][Next]_vars

(* Several callers of analyzeFile at once, one file each, sharing count    *)
(* and counterMutex.                                                       *)
InitPar ==
    /\ InitCommon
    /\ over = 0 /\ top = -1 /\ avg = FALSE
    /\ args = 0
    /\ pc = "analyze"
    /\ walk \in [Callers -> {<<f>> : f \in FileSet}]
    /\ BasicBlocks = NoBlocks

NextPar ==
    \E c \in Callers :
        \/ ParseFile(c)
        \/ RangeDecl(c)
        \/ Lock(c)
        \/ AppendBlock(c)
        \/ Incr(c)
        \/ Unlock(c)

SpecPar == InitPar /\ [][NextPar]_vars


(* buildBasicBlocks on a file holding one function declaration, drawn from *)
(* every receiver shape and every syntax subtree within the bounds.        *)
RECURSIVE TypeExprs(_)
TypeExprs(d) ==
    IF d = 0 THEN {Ident("T"), ArrayType}
    ELSE TypeExprs(d - 1) \cup {StarExpr(x) : x \in TypeExprs(d - 1)}

Receivers == {NoRecv, EmptyRecv} \cup {RecvOf(t) : t \in TypeExprs(MaxStars)}

NodesUnder(p) ==
    {Node(k, p) : k \in {"IfStmt", "ForStmt", "RangeStmt", "CaseClause",
                         "CommClause", "FuncLit", "BlockStmt"}}
    \cup {BinaryExpr(op, p) : op \in {"LAND", "LOR", "ADD"}}
    \cup {CallExpr("g", p)}

Subtrees ==
    {nodes \in SeqsUpTo(UNION {NodesUnder(p) : p \in 0..(MaxNodes - 1)}, MaxNodes) :
        IsPreorder(nodes)}

InitFunc ==
    /\ InitCommon
    /\ over = 0 /\ top = -1 /\ avg = FALSE
    /\ args = 0
    /\ pc = "analyze"
    /\ \E recv \in Receivers, nodes \in Subtrees :
          walk = [c \in Callers |->
                    IF c = Main
                    THEN <<GoFile("f.go", TRUE, <<FuncDecl("M", recv, nodes)>>)>>
                    ELSE <<>>]
    /\ BasicBlocks = NoBlocks

NextFunc ==
    \/ ParseFile(Main)
    \/ RangeDecl(Main)
    \/ Lock(Main)
    \/ AppendBlock(Main)
    \/ Incr(Main)
    \/ Unlock(Main)

SpecFunc == InitFunc /\ [][NextFunc]_vars

(* sort.Sort(byComplexity(...)) on every sequence of records within the    *)
(* bounds, numbered in discovery order as analyze leaves them.             *)
Block(c, i) ==
    [PkgName |-> "p", FuncName |-> <<"f">>, Complexity |-> c,
     Pos |-> Position(FileA, i, "Pos"), EndPos |-> Position(FileA, i, "End"),
     ID |-> i]

RecordSeqs ==
    {[i \in 1..Len(cs) |-> Block(cs[i], i)] :
        cs \in SeqsUpTo(1..MaxComplexity, MaxLen)}

InitSort ==
    /\ InitCommon
    /\ over = 0 /\ top = -1 /\ avg = FALSE
    /\ args = 0
    /\ pc = "sort"
    /\ walk = NoWalk
    /\ \E s \in RecordSeqs :
          BasicBlocks = [c \in Callers |-> IF c = Main THEN s ELSE <<>>]

SpecSort == InitSort /\ [][Sort]_vars

(* writeBasicBlocks on every sequence of records and every (over, top)     *)
(* within the bounds.                                                      *)
InitWrite ==
    /\ InitCommon
    /\ over \in OverValues /\ top \in TopValues /\ avg = FALSE
    /\ args = 0
    /\ pc = "write"
    /\ walk = NoWalk
    /\ \E s \in RecordSeqs :
          BasicBlocks = [c \in Callers |-> IF c = Main THEN s ELSE <<>>]

SpecWrite == InitWrite /\ [][Write]_vars

----------------------------------------------------------------------------
(* Properties *)

RECURSIVE SumLen(_)
SumLen(c) == IF c = 0 THEN 0 ELSE Len(BasicBlocks[c]) + SumLen(c - 1)

NumRecords == SumLen(NumCallers)

AssignedIDs ==
    UNION {{BasicBlocks[c][i].ID : i \in DOMAIN BasicBlocks[c]} : c \in Callers}

(* C1: under every interleaving of the callers of buildBasicBlocks, the    *)
(* ids of the N records created so far are exactly 1..N (no duplicate, no  *)
(* gap), and whenever the mutex is free the counter stands at N + 1 (it    *)
(* started at 1, was never reset and lost no increment).                   *)
IdentityUnique ==
    /\ AssignedIDs = 1..NumRecords
    /\ counterMutex = 0 => count = NumRecords + 1

IdentityUniqueWitness ==
    /\ \A c \in Callers : cpc[c] = "idle" /\ walk[c] = <<>>
    /\ NumRecords >= 3
    /\ \E c \in Callers :
          /\ Len(BasicBlocks[c]) >= 2
          /\ BasicBlocks[c][2].ID > BasicBlocks[c][1].ID + 1

Sorted == BasicBlocks[Main]

DiscoveryIndex(b) == CHOOSE k \in DOMAIN discovered : discovered[k] = b

(* C2: after the sort, records of equal complexity stand in the order in   *)
(* which they were discovered.                                             *)
SortStable ==
    pc = "write" =>
        \A i, j \in DOMAIN Sorted :
            (i < j /\ Sorted[i].Complexity = Sorted[j].Complexity)
                => DiscoveryIndex(Sorted[i]) < DiscoveryIndex(Sorted[j])

Occurrences(s, r) == Cardinality({i \in DOMAIN s : s[i] = r})

RecordLines == SelectSeq(stdout, LAMBDA l : l.kind = "BasicBlock")

(* C4: writeBasicBlocks emits no record of complexity <= over, at most top *)
(* records when top >= 0, and returns the number of records it emitted.    *)
WriteFilters ==
    pc = "avg" =>
        /\ \A k \in DOMAIN RecordLines : RecordLines[k].text[1] > over
        /\ top >= 0 => Len(RecordLines) <= top
        /\ written = Len(RecordLines)

WriteFiltersWitness ==
    /\ pc = "avg"
    /\ over > 0 /\ top >= 0
    /\ written = top
    /\ written > 0
    /\ written < Len(BasicBlocks[Main])
    /\ BasicBlocks[Main][written + 1].Complexity > over

Complexities(s) == [i \in DOMAIN s |-> s[i].Complexity]

(* C5: a run that parses all its inputs exits with status 1 exactly when   *)
(* over > 0 and at least one record was emitted, else with status 0; with  *)
(* complexities 5 and 2 and over = 3 only the complexity-5 record is       *)
(* emitted and the status is 1.                                            *)
ExitSignalsThreshold ==
    (pc = "done" /\ stderr = <<>>) =>
        /\ exitCode = (IF over > 0 /\ Len(RecordLines) > 0 THEN 1 ELSE 0)
        /\ (Complexities(discovered) = <<5, 2>> /\ over = 3 /\ top = -1)
              => /\ Len(RecordLines) = 1
                 /\ RecordLines[1].text[1] = 5
                 /\ exitCode = 1

ExitSignalsThresholdWitness ==
    /\ pc = "done" /\ stderr = <<>>
    /\ Complexities(discovered) = <<5, 2>> /\ over = 3 /\ top = -1
    /\ exitCode = 1

(* C6: with showAverage set and zero records, the run reports no average   *)
(* that is NaN or 0.                                                       *)
AverageNoData ==
    (pc \in {"exit", "done"} /\ stderr = <<>> /\ avg /\ BasicBlocks[Main] = <<>>) =>
        \A k \in DOMAIN stdout :
            stdout[k].kind = "Average" =>
                /\ stdout[k].value.class = "finite"
                /\ stdout[k].value.num # 0

ParseFailed == \E k \in DOMAIN stderr : stderr[k].kind = "fatal"

(* C7: when an input file fails to parse the run stops there, emits no     *)
(* record line, and exits with status 2, the one shared with usage errors  *)
(* and distinct from status 1.                                             *)
ParseFailureStatus ==
    ParseFailed =>
        /\ exitCode = UsageExit
        /\ Len(RecordLines) = 0

NodeCount(fn, kinds) ==
    Cardinality({i \in DOMAIN fn.Nodes : fn.Nodes[i].kind \in kinds})

OperatorCount(fn) ==
    Cardinality({i \in DOMAIN fn.Nodes :
        fn.Nodes[i].kind = "BinaryExpr" /\ fn.Nodes[i].Op \in {"LAND", "LOR"}})

DeclOf(b) == file[Main].Decls[b.Pos.Decl]

(* C8: complexity(fn) is 1 + the if, for and range nodes + the case and    *)
(* comm arms + the && and || operators of the whole subtree, closures      *)
(* included; it is at least 1, and 1 when there is no such node.           *)
ComplexityFormula ==
    \A k \in DOMAIN BasicBlocks[Main] :
        LET b == BasicBlocks[Main][k]
            fn == DeclOf(b)
            points == NodeCount(fn, {"IfStmt", "ForStmt", "RangeStmt"})
                      + NodeCount(fn, {"CaseClause", "CommClause"})
                      + OperatorCount(fn)
        IN  /\ b.Complexity = 1 + points
            /\ b.Complexity >= 1
            /\ points = 0 => b.Complexity = 1

ComplexityFormulaWitness ==
    /\ Len(BasicBlocks[Main]) = 1
    /\ BasicBlocks[Main][1].Complexity = 2
    /\ LET fn == DeclOf(BasicBlocks[Main][1])
       IN  /\ Len(fn.Nodes) = 2
           /\ fn.Nodes[1].kind = "FuncLit"
           /\ fn.Nodes[2].parent = 1
           /\ fn.Nodes[2].kind = "BinaryExpr" /\ fn.Nodes[2].Op = "LOR"

\* C9: a method M renders as "(T).M" for a value receiver T, with a star
\* before the T for a pointer receiver, and as "(BADRECV).M" for a
\* double-pointer or non-identifier receiver; a declaration without
\* receiver renders as its own identifier.
ReceiverRendering ==
    \A k \in DOMAIN BasicBlocks[Main] :
        LET b == BasicBlocks[Main][k]
            fn == DeclOf(b)
            typ == fn.Recv.List[1].Type
        IN  IF fn.Recv.nil \/ fn.Recv.List = <<>>
            THEN b.FuncName = <<fn.Name>>
            ELSE IF typ.t = "Ident"
            THEN b.FuncName = <<"(", typ.Name, ")", ".", fn.Name>>
            ELSE IF typ.t = "StarExpr" /\ typ.X.t = "Ident"
            THEN b.FuncName = <<"(", "*", typ.X.Name, ")", ".", fn.Name>>
            ELSE b.FuncName = <<"(", "BADRECV", ")", ".", fn.Name>>

(* C10: computing a complexity writes nothing, so standard output holds    *)
(* only the record lines of writeBasicBlocks and the Average line.         *)
StdoutOnlyReport ==
    \A k \in DOMAIN stdout : stdout[k].kind \in {"BasicBlock", "Average"}


====
